---- MODULE Spec2Model ----
(***************************************************************************)
(* A model of traa_mcp_server: the snapshot tools (tools/snapshot.py), the *)
(* tool wrappers and entry points of the server (server/app.py, stdio.py,  *)
(* sse.py) and the interactive client (client/app.py).                     *)
(*                                                                         *)
(* Exceptions are records [kind, msg]: kind is the Python exception class, *)
(* msg the message as the sequence of its fragments, outermost prefix      *)
(* first (f"Failed to save snapshot: {e}" is <<"Failed to save snapshot">> *)
(* \o e.msg).                                                              *)
(***************************************************************************)
EXTENDS Integers, Sequences, FiniteSets, TLC

VARIABLES
    dirs,       \* file system: the set of existing directories (paths)
    files,      \* file system: file path -> content of the file
    last,       \* the last completed call of a snapshot function or tool
    ncalls,     \* number of calls made so far
    srv,        \* the server process: its entry point, position and result
    cl          \* the client process (MCPClient and _main_impl)

snapVars == <<dirs, files, last, ncalls>>

(***************************************************************************)
(* Bounds                                                                  *)
(***************************************************************************)
MaxSourceId == 0
MaxDim == 1
MaxDepth == 2
MaxSources == 2
MaxCalls == 2

(***************************************************************************)
(* Program constants                                                       *)
(***************************************************************************)
DefaultQuality == 80
SnapshotQuality == 60
DefaultFormat == "jpeg"

(***************************************************************************)
(* Inputs                                                                  *)
(***************************************************************************)
SourceIds == -1 .. MaxSourceId
Dims == -1 .. MaxDim
Sizes == Dims \X Dims
Formats == {"jpeg", "png", "bmp"}
Qualities == {DefaultQuality, 100}

\* Directory names: an ordinary one and one that holds a NUL character (no
\* file system accepts it).  The directory "readonly" exists from the start
\* and cannot be written to.
DirNames == {"nested", "nul"}
FileName == "out"
DirPaths == UNION {[1..n -> DirNames] : n \in 0..MaxDepth}
              \cup {<<"readonly">>, <<"readonly", "nested">>}
FilePaths == {Append(d, FileName) : d \in DirPaths}
ReadOnlyDirs == {<<"readonly">>}

Parent(p) == SubSeq(p, 1, Len(p) - 1)

(***************************************************************************)
(* Exceptions                                                              *)
(***************************************************************************)
NoExc == [kind |-> "none", msg |-> <<>>]
Raise(kind, msg) == [kind |-> kind, msg |-> msg]
Wrap(kind, prefix, e) == [kind |-> kind, msg |-> <<prefix>> \o e.msg]
Contains(msg, s) == \E i \in 1..Len(msg) : msg[i] = s

(***************************************************************************)
(* The backend (traa): what one call of it answers.                        *)
(***************************************************************************)
BackendSource == [id : 0..1, title : {"Test Window"}, is_window : BOOLEAN,
                  rect : {[left |-> 0, top |-> 0, right |-> 1920, bottom |-> 1080],
                          [left |-> 10, top |-> 20, right |-> 30, bottom |-> 40]}]
BackendSourceLists == UNION {[1..n -> BackendSource] : n \in 0..MaxSources}

\* traa.create_snapshot: a frame (ndarray, Size) of some pixel layout, None,
\* a pair of the wrong types, or traa.Error.
CaptureResults ==
    {[t |-> "frame", mode |-> m] : m \in {"RGBA", "RGB"}}
    \cup {[t |-> "none", mode |-> "-"], [t |-> "badtypes", mode |-> "-"]}
    \cup {[t |-> "error", mode |-> "-"]}

\* traa.enum_screen_sources: a list of sources, or traa.Error.
EnumResults ==
    {[t |-> "list", sources |-> s] : s \in BackendSourceLists}
    \cup {[t |-> "error", sources |-> <<>>]}

TraaErrorText == "Invalid source ID"

(***************************************************************************)
(* enum_screen_sources                                                     *)
(***************************************************************************)
SimpleScreenSourceInfo_Swapped(source) ==
    [id |-> source.id, title |-> source.title, is_window |-> source.is_window,
     rect |-> <<source.rect.left, source.rect.top,
                source.rect.bottom, source.rect.right>>]

SimpleScreenSourceInfo(source) ==
    [id |-> source.id, title |-> source.title, is_window |-> source.is_window,
     rect |-> <<source.rect.left, source.rect.top,
                source.rect.right, source.rect.bottom>>]

enum_screen_sources(b) ==
    IF b.t = "error"
    THEN [exc |-> Raise("RuntimeError",
                        <<"Failed to enumerate screen sources", TraaErrorText>>),
          value |-> <<>>, calls |-> 1]
    ELSE [exc |-> NoExc,
          value |-> [i \in 1..Len(b.sources) |-> SimpleScreenSourceInfo(b.sources[i])],
          calls |-> 1]

(***************************************************************************)
(* _create_snapshot                                                        *)
(***************************************************************************)
NoImage == [mode |-> "-"]

Convert_Never(image, format) == image

\* PILImage.fromarray, then convert("RGB") for jpeg.
Convert(image, format) ==
    IF format = "jpeg" THEN [mode |-> "RGB"] ELSE image

ValidateArgs_StrictSize(source_id, size, format) ==
    IF source_id < 0
    THEN Raise("ValueError", <<"Source ID must be non-negative">>)
    ELSE IF size[1] < 0 \/ size[2] < 0
    THEN Raise("ValueError", <<"Width and height must be positive">>)
    ELSE IF format \notin {"jpeg", "png"}
    THEN Raise("ValueError", <<"Unsupported format", format>>)
    ELSE NoExc

ValidateArgs_AnyFormat(source_id, size, format) ==
    IF source_id < 0
    THEN Raise("ValueError", <<"Source ID must be non-negative">>)
    ELSE IF size[1] <= 0 \/ size[2] <= 0
    THEN Raise("ValueError", <<"Width and height must be positive">>)
    ELSE NoExc

ValidateArgs(source_id, size, format) ==
    IF source_id < 0
    THEN Raise("ValueError", <<"Source ID must be non-negative">>)
    ELSE IF size[1] <= 0 \/ size[2] <= 0
    THEN Raise("ValueError", <<"Width and height must be positive">>)
    ELSE IF format \notin {"jpeg", "png"}
    THEN Raise("ValueError", <<"Unsupported format", format>>)
    ELSE NoExc

Capture_NoneUnchecked(format, b) ==
    IF b.t = "error"
    THEN [exc |-> Raise("RuntimeError", <<"Failed to create snapshot", TraaErrorText>>),
          image |-> NoImage, calls |-> 1]
    ELSE IF b.t = "none"
    THEN [exc |-> Raise("RuntimeError",
                        <<"Unexpected error during snapshot creation",
                          "cannot unpack non-iterable NoneType object">>),
          image |-> NoImage, calls |-> 1]
    ELSE IF b.t = "badtypes"
    THEN [exc |-> Raise("RuntimeError",
                        <<"Unexpected error during snapshot creation",
                          "Invalid result format", "unexpected types">>),
          image |-> NoImage, calls |-> 1]
    ELSE [exc |-> NoExc, image |-> Convert([mode |-> b.mode], format), calls |-> 1]

\* The try block: the backend call and the checks of its result.  The
\* RuntimeError raised inside the block is caught by `except Exception`.
Capture(format, b) ==
    IF b.t = "error"
    THEN [exc |-> Raise("RuntimeError", <<"Failed to create snapshot", TraaErrorText>>),
          image |-> NoImage, calls |-> 1]
    ELSE IF b.t = "none"
    THEN [exc |-> Raise("RuntimeError",
                        <<"Unexpected error during snapshot creation",
                          "Invalid result format",
                          "traa.create_snapshot returned None">>),
          image |-> NoImage, calls |-> 1]
    ELSE IF b.t = "badtypes"
    THEN [exc |-> Raise("RuntimeError",
                        <<"Unexpected error during snapshot creation",
                          "Invalid result format", "unexpected types">>),
          image |-> NoImage, calls |-> 1]
    ELSE [exc |-> NoExc, image |-> Convert([mode |-> b.mode], format), calls |-> 1]

_create_snapshot(source_id, size, format, b) ==
    LET v == ValidateArgs(source_id, size, format) IN
    IF v.kind # "none"
    THEN [exc |-> v, image |-> NoImage, calls |-> 0]
    ELSE Capture(format, b)

(***************************************************************************)
(* Encoding: PIL's Image.save                                              *)
(***************************************************************************)
\* The JPEG encoder has no alpha channel: it refuses an RGBA image.
Encode(image, format, quality) ==
    IF format = "jpeg" /\ image.mode # "RGB"
    THEN [exc |-> Raise("OSError", <<"cannot write mode as JPEG">>),
          content |-> [format |-> "-", quality |-> 0, size |-> 0]]
    ELSE [exc |-> NoExc,
          content |-> [format |-> format,
                       quality |-> IF format = "jpeg" THEN quality ELSE 0,
                       size |-> 1]]

(***************************************************************************)
(* create_snapshot                                                         *)
(***************************************************************************)
create_snapshot(source_id, size, b) ==
    LET r == _create_snapshot(source_id, size, "jpeg", b) IN
    IF r.exc.kind = "ValueError"
    THEN [exc |-> r.exc, value |-> <<>>, calls |-> r.calls]
    ELSE IF r.exc.kind # "none"
    THEN [exc |-> Wrap("RuntimeError", "Unexpected error during snapshot creation", r.exc),
          value |-> <<>>, calls |-> r.calls]
    ELSE LET e == Encode(r.image, "jpeg", SnapshotQuality) IN
         IF e.exc.kind # "none"
         THEN [exc |-> Wrap("RuntimeError", "Unexpected error during snapshot creation", e.exc),
               value |-> <<>>, calls |-> r.calls]
         ELSE [exc |-> NoExc, value |-> <<e.content>>, calls |-> r.calls]

(***************************************************************************)
(* os.makedirs(dir, exist_ok=True): the missing ancestors are made from    *)
(* the outermost one inwards; the first failure ends it, and what was made *)
(* before stays.                                                           *)
(***************************************************************************)
Mkdir(ds, p) ==
    IF p[Len(p)] = "nul"
    THEN [exc |-> Raise("ValueError", <<"embedded null byte">>), dirs |-> ds]
    ELSE IF Parent(p) \in ReadOnlyDirs
    THEN [exc |-> Raise("OSError", <<"Permission denied">>), dirs |-> ds]
    ELSE [exc |-> NoExc, dirs |-> ds \cup {p}]

RECURSIVE MakedirsFrom(_, _, _)
MakedirsFrom(ds, d, i) ==
    IF i > Len(d)
    THEN [exc |-> NoExc, dirs |-> ds]
    ELSE LET p == SubSeq(d, 1, i) IN
         IF p \in ds
         THEN MakedirsFrom(ds, d, i + 1)
         ELSE LET m == Mkdir(ds, p) IN
              IF m.exc.kind # "none" THEN m ELSE MakedirsFrom(m.dirs, d, i + 1)

makedirs(ds, d) == MakedirsFrom(ds, d, 1)

\* Image.save(file_path, ...): opens the file for writing, then encodes.
WriteFile(ds, fs, path, image, format, quality) ==
    IF Parent(path) \notin ds
    THEN [exc |-> Raise("OSError", <<"No such file or directory">>), files |-> fs]
    ELSE IF Parent(path) \in ReadOnlyDirs
    THEN [exc |-> Raise("OSError", <<"Permission denied">>), files |-> fs]
    ELSE LET e == Encode(image, format, quality) IN
         IF e.exc.kind # "none"
         THEN [exc |-> e.exc, files |-> fs]
         ELSE [exc |-> NoExc,
               files |-> [q \in DOMAIN fs \cup {path} |->
                            IF q = path THEN e.content ELSE fs[q]]]

(***************************************************************************)
(* save_snapshot                                                           *)
(***************************************************************************)
\* except ValueError: raise e / except Exception: RuntimeError(...)
SaveHandler(e) ==
    IF e.kind \in {"none", "ValueError"}
    THEN e
    ELSE Wrap("RuntimeError", "Failed to save snapshot", e)

save_snapshot(ds, fs, source_id, size, file_path, quality, format, b) ==
    LET r == _create_snapshot(source_id, size, format, b) IN
    IF r.exc.kind # "none"
    THEN [exc |-> SaveHandler(r.exc), dirs |-> ds, files |-> fs, calls |-> r.calls]
    ELSE LET m == makedirs(ds, Parent(file_path)) IN
         IF m.exc.kind # "none"
         THEN [exc |-> SaveHandler(m.exc), dirs |-> m.dirs, files |-> fs, calls |-> r.calls]
         ELSE LET w == WriteFile(m.dirs, fs, file_path, r.image, format, quality) IN
              [exc |-> SaveHandler(w.exc), dirs |-> m.dirs, files |-> w.files,
               calls |-> r.calls]

(***************************************************************************)
(* The tool wrappers registered with the server (server/app.py).  A tool   *)
(* call carries named arguments; the wrapper receives the parameters of    *)
(* its signature and no others.                                            *)
(***************************************************************************)
Absent == <<>>
GivenQualities == {<<100>>, Absent}
GivenFormats == {<<"jpeg">>, <<"png">>, Absent}

enum_screen_sources_tool(b) == enum_screen_sources(b)

create_snapshot_tool(source_id, snapshot_size, b) ==
    create_snapshot(source_id, snapshot_size, b)

save_snapshot_tool(ds, fs, source_id, snapshot_size, file_path, b) ==
    save_snapshot(ds, fs, source_id, snapshot_size, file_path,
                  DefaultQuality, DefaultFormat, b)

(***************************************************************************)
(* State: the record of the last call, and the calls as actions.           *)
(***************************************************************************)
NotAsked == [t |-> "-", mode |-> "-"]

NoCall ==
    [op |-> "none", source_id |-> 0, size |-> <<0, 0>>, file_path |-> <<>>,
     quality |-> 0, format |-> "-", given_quality |-> Absent, given_format |-> Absent,
     backend |-> NotAsked, sources |-> <<>>, exc |-> NoExc, calls |-> 0, value |-> <<>>,
     pre_dirs |-> {}, pre_files |-> <<>>]

SnapInit ==
    /\ dirs = {<<>>} \cup ReadOnlyDirs
    /\ files = <<>>
    /\ last = NoCall
    /\ ncalls = 0

EnumScreenSources ==
    /\ last.op = "none"
    /\ ncalls < MaxCalls
    /\ \E b \in EnumResults, tool \in BOOLEAN :
         LET r == IF tool THEN enum_screen_sources_tool(b) ELSE enum_screen_sources(b) IN
         last' = [NoCall EXCEPT !.op = IF tool THEN "enum_screen_sources_tool"
                                       ELSE "enum_screen_sources",
                                !.backend = [t |-> b.t, mode |-> "-"],
                                !.sources = b.sources, !.exc = r.exc, !.calls = r.calls,
                                !.value = r.value,
                                !.pre_dirs = dirs, !.pre_files = files]
    /\ ncalls' = ncalls + 1
    /\ UNCHANGED <<dirs, files, srv, cl>>

CreateSnapshotInternal ==
    /\ last.op = "none"
    /\ ncalls < MaxCalls
    /\ \E sid \in SourceIds, size \in Sizes, fmt \in Formats, b \in CaptureResults :
         LET r == _create_snapshot(sid, size, fmt, b) IN
         last' = [NoCall EXCEPT !.op = "_create_snapshot", !.source_id = sid,
                                !.size = size, !.format = fmt,
                                !.backend = IF r.calls > 0 THEN b ELSE NotAsked,
                                !.exc = r.exc, !.calls = r.calls,
                                !.value = IF r.exc.kind = "none" THEN <<r.image>> ELSE <<>>,
                                !.pre_dirs = dirs, !.pre_files = files]
    /\ ncalls' = ncalls + 1
    /\ UNCHANGED <<dirs, files, srv, cl>>

CreateSnapshot ==
    /\ last.op = "none"
    /\ ncalls < MaxCalls
    /\ \E sid \in SourceIds, size \in Sizes, b \in CaptureResults, tool \in BOOLEAN :
         LET r == IF tool THEN create_snapshot_tool(sid, size, b)
                  ELSE create_snapshot(sid, size, b) IN
         last' = [NoCall EXCEPT !.op = IF tool THEN "create_snapshot_tool"
                                       ELSE "create_snapshot",
                                !.source_id = sid, !.size = size, !.format = "jpeg",
                                !.quality = SnapshotQuality,
                                !.backend = IF r.calls > 0 THEN b ELSE NotAsked,
                                !.exc = r.exc, !.calls = r.calls, !.value = r.value,
                                !.pre_dirs = dirs, !.pre_files = files]
    /\ ncalls' = ncalls + 1
    /\ UNCHANGED <<dirs, files, srv, cl>>

SaveSnapshot ==
    /\ last.op = "none"
    /\ ncalls < MaxCalls
    /\ \E sid \in SourceIds, size \in Sizes, path \in FilePaths, q \in Qualities,
          fmt \in Formats, b \in CaptureResults :
         LET r == save_snapshot(dirs, files, sid, size, path, q, fmt, b) IN
         /\ last' = [NoCall EXCEPT !.op = "save_snapshot", !.source_id = sid,
                                   !.size = size, !.file_path = path, !.quality = q,
                                   !.format = fmt,
                                   !.backend = IF r.calls > 0 THEN b ELSE NotAsked,
                                   !.exc = r.exc, !.calls = r.calls,
                                   !.pre_dirs = dirs, !.pre_files = files]
         /\ dirs' = r.dirs
         /\ files' = r.files
    /\ ncalls' = ncalls + 1
    /\ UNCHANGED <<srv, cl>>

\* A call of the save_snapshot tool: gq and gf are the quality and format
\* arguments the caller supplies with the call (or leaves out).
SaveSnapshotTool ==
    /\ last.op = "none"
    /\ ncalls < MaxCalls
    /\ \E sid \in SourceIds, size \in Sizes, path \in FilePaths, gq \in GivenQualities,
          gf \in GivenFormats, b \in CaptureResults :
         LET r == save_snapshot_tool(dirs, files, sid, size, path, b) IN
         /\ last' = [NoCall EXCEPT !.op = "save_snapshot_tool", !.source_id = sid,
                                   !.size = size, !.file_path = path,
                                   !.quality = DefaultQuality, !.format = DefaultFormat,
                                   !.given_quality = gq, !.given_format = gf,
                                   !.backend = IF r.calls > 0 THEN b ELSE NotAsked,
                                   !.exc = r.exc, !.calls = r.calls,
                                   !.pre_dirs = dirs, !.pre_files = files]
         /\ dirs' = r.dirs
         /\ files' = r.files
    /\ ncalls' = ncalls + 1
    /\ UNCHANGED <<srv, cl>>

\* The caller has taken the result of the call.
Returned ==
    /\ last.op # "none"
    /\ last' = NoCall
    /\ UNCHANGED <<dirs, files, ncalls, srv, cl>>

SnapNext ==
    \/ Returned
    \/ EnumScreenSources
    \/ CreateSnapshotInternal
    \/ CreateSnapshot
    \/ SaveSnapshot
    \/ SaveSnapshotTool


(***************************************************************************)
(* The server process and its entry points: main of server/app.py (a click *)
(* command with --port and --transport), main of server/stdio.py and main  *)
(* of server/sse.py (a click command with --port).                         *)
(***************************************************************************)
DefaultPort == 3001
MaxPortOffset == 3
Ports == DefaultPort .. (DefaultPort + MaxPortOffset)
Transports == {"stdio", "sse"}
EntryPoints == {"app", "stdio", "sse"}

\* How a run of the server (run_stdio_async, run_sse_async) ends.
RunEvents == {"finished", "KeyboardInterrupt", "OSError", "RuntimeError"}

NoResult == [how |-> "-", value |-> 0, exc |-> "-"]
Return(v) == [how |-> "return", value |-> v, exc |-> "-"]
Propagate(e) == [how |-> "raise", value |-> 0, exc |-> e]

SrvIdle ==
    [pc |-> "idle", entry |-> "-", transport |-> "-", arg_port |-> DefaultPort,
     settings_port |-> DefaultPort, event |-> "-", log |-> "-", result |-> NoResult, exit_code |-> -1]

\* The transport an entry point runs.
TransportOf(entry, transport) ==
    IF entry = "app" THEN transport ELSE entry

\* server.settings.port = port, in the sse branch only.
SettingsPort(entry, transport, port) ==
    IF TransportOf(entry, transport) = "sse" THEN port ELSE DefaultPort

\* main of server/app.py: the try statement around asyncio.run.
app_main(event) ==
    IF event = "finished" THEN [result |-> Return(0), log |-> "-"]
    ELSE IF event = "KeyboardInterrupt"
    THEN [result |-> Return(0), log |-> "Server stopped by user"]
    ELSE [result |-> Return(1), log |-> "Failed to start server"]

\* main of server/stdio.py: return asyncio.run(...), no handler.
stdio_main(event) ==
    IF event = "finished" THEN [result |-> Return(0), log |-> "-"]
    ELSE [result |-> Propagate(event), log |-> "-"]

\* main of server/sse.py: return asyncio.run(...), no handler.
sse_main(event) ==
    IF event = "finished" THEN [result |-> Return(0), log |-> "-"]
    ELSE [result |-> Propagate(event), log |-> "-"]

EntryMain(entry, event) ==
    IF entry = "app" THEN app_main(event)
    ELSE IF entry = "stdio" THEN stdio_main(event)
    ELSE sse_main(event)

\* A click command run as a program ends the process itself: with 0 when
\* the callback returns (whatever it returns), with 1 when the callback is
\* interrupted (Abort); any other exception leaves it as raised.
ClickExitCodes(result) ==
    IF result.how = "return" THEN {0}
    ELSE {1}

\* sys.exit(main()) of a plain function: the returned value (None is 0), 1
\* for an exception that is not caught; an interrupt that is not caught
\* ends the process by the signal (130) or, on older interpreters, with 1.
PlainExitCodes(result) ==
    IF result.how = "return" THEN {result.value}
    ELSE IF result.exc = "KeyboardInterrupt" THEN {130, 1}
    ELSE {1}

ExitCodes(entry, result) ==
    IF entry \in {"app", "sse"} THEN ClickExitCodes(result) ELSE PlainExitCodes(result)

SrvStart ==
    /\ srv.pc = "idle"
    /\ \E entry \in EntryPoints, transport \in Transports, port \in Ports :
         /\ entry # "app" => transport = entry
         /\ entry = "stdio" => port = DefaultPort
         /\ srv' = [srv EXCEPT !.pc = "main", !.entry = entry,
                               !.transport = transport, !.arg_port = port]
    /\ UNCHANGED <<snapVars, cl>>

SrvRun ==
    /\ srv.pc = "main"
    /\ srv' = [srv EXCEPT !.pc = "running",
                          !.settings_port =
                              SettingsPort(srv.entry, srv.transport, srv.arg_port)]
    /\ UNCHANGED <<snapVars, cl>>

SrvStop ==
    /\ srv.pc = "running"
    /\ \E event \in RunEvents :
         LET r == EntryMain(srv.entry, event) IN
         srv' = [srv EXCEPT !.pc = "returned", !.event = event,
                            !.result = r.result, !.log = r.log]
    /\ UNCHANGED <<snapVars, cl>>

SrvExit ==
    /\ srv.pc = "returned"
    /\ \E code \in ExitCodes(srv.entry, srv.result) :
         srv' = [srv EXCEPT !.pc = "exited", !.exit_code = code]
    /\ UNCHANGED <<snapVars, cl>>

ServerNext ==
    \/ SrvStart
    \/ SrvRun
    \/ SrvStop
    \/ SrvExit


(***************************************************************************)
(* The client (client/app.py): _main_impl connects, runs the interactive   *)
(* loop and cleans up.  Every await and every input() is one step.         *)
(***************************************************************************)
MaxIter == 2
MaxTokens == 2

\* The tools the server registers (server/app.py), as list_tools reports
\* them: the name and the required parameters with their schema types.
ToolNames == <<"enum_screen_sources", "create_snapshot", "save_snapshot">>

Required(tool) ==
    IF tool = "create_snapshot"
    THEN <<[name |-> "source_id", type |-> "integer"],
           [name |-> "snapshot_size", type |-> "array"]>>
    ELSE IF tool = "save_snapshot"
    THEN <<[name |-> "source_id", type |-> "integer"],
           [name |-> "snapshot_size", type |-> "array"],
           [name |-> "file_path", type |-> "string"]>>
    ELSE <<>>

\* A line typed by the user, after strip(): the fields between its commas.
Tokens == {"7", "x"}
Lines == UNION {[1..n -> Tokens] : n \in 1..MaxTokens}

\* A line typed at the "Query: " prompt: its text, and whether blanks
\* surround the text.
QueryTexts == {"quit", "QUIT", "bogus", "enum_screen_sources", "create_snapshot",
               "CREATE_SNAPSHOT", "save_snapshot"}
Queries == [text : QueryTexts, pad : BOOLEAN]
NoLine == [text |-> "-", pad |-> FALSE]

\* str.strip()
Strip(line) == line.text

\* str.lower()
Lower(q) ==
    IF q = "QUIT" THEN "quit"
    ELSE IF q = "CREATE_SNAPSHOT" THEN "create_snapshot"
    ELSE q

\* int(x.strip()) of one field
IsNumeral(tok) == tok = "7"
IntOf(tok) == 7

\* The conversion of a raw line to the schema type of the parameter.
Coerce(type, line) ==
    IF type \in {"integer", "number"}
    THEN IF Len(line) = 1 /\ IsNumeral(line[1])
         THEN [ok |-> TRUE, value |-> <<IntOf(line[1])>>]
         ELSE [ok |-> FALSE, value |-> <<>>]
    ELSE IF type = "array"
    THEN IF \A i \in 1..Len(line) : IsNumeral(line[i])
         THEN [ok |-> TRUE, value |-> [i \in 1..Len(line) |-> IntOf(line[i])]]
         ELSE [ok |-> FALSE, value |-> <<>>]
    ELSE [ok |-> TRUE, value |-> line]

NoClExc == [kind |-> "none", at |-> "-"]

ClStart ==
    [pc |-> "open_transport", stack |-> <<>>, released |-> <<>>, session |-> "none",
     inited |-> FALSE, started |-> FALSE, requests |-> <<>>, tools |-> <<>>,
     sel |-> "-", idx |-> 0, params |-> <<>>, iter |-> 0, printed |-> "-",
     exc |-> NoClExc, query |-> NoLine, raw |-> <<>>, nread |-> 0, sent |-> <<>>,
     response |-> "-", outstanding |-> 0, entered |-> <<>>]

\* connect_to_server: where an await of it leads, by whether it succeeded.
\* An exception leaves connect_to_server and _main_impl's try block.
ConnectStep_Swallow(step, ok) ==
    IF step = "open_transport" THEN (IF ok THEN "open_session" ELSE "cleanup")
    ELSE IF step = "open_session" THEN (IF ok THEN "initialize" ELSE "cleanup")
    ELSE IF step = "initialize" THEN "refresh"
    ELSE IF ok THEN "loop" ELSE "cleanup"

ConnectStep(step, ok) ==
    IF ~ok THEN "cleanup"
    ELSE IF step = "open_transport" THEN "open_session"
    ELSE IF step = "open_session" THEN "initialize"
    ELSE IF step = "initialize" THEN "refresh"
    ELSE "loop"

Fail(c, kind, at) == [c EXCEPT !.exc = [kind |-> kind, at |-> at]]

\* exit_stack.enter_async_context(stdio_client(server_params))
ClOpenTransport ==
    /\ cl.pc = "open_transport"
    /\ \E ok \in BOOLEAN :
         cl' = [(IF ok THEN [cl EXCEPT !.stack = Append(@, "stdio_client"),
                                       !.entered = Append(@, "stdio_client")]
                 ELSE Fail(cl, "OSError", "stdio_client"))
                EXCEPT !.pc = ConnectStep("open_transport", ok)]
    /\ UNCHANGED <<snapVars, srv>>

\* exit_stack.enter_async_context(ClientSession(self.stdio, self.write))
ClOpenSession ==
    /\ cl.pc = "open_session"
    /\ \E ok \in BOOLEAN :
         cl' = [(IF ok THEN [cl EXCEPT !.stack = Append(@, "ClientSession"),
                                       !.entered = Append(@, "ClientSession"),
                                       !.session = "open"]
                 ELSE Fail(cl, "RuntimeError", "ClientSession"))
                EXCEPT !.pc = ConnectStep("open_session", ok)]
    /\ UNCHANGED <<snapVars, srv>>

\* await self.session.initialize()
ClInitialize ==
    /\ cl.pc = "initialize"
    /\ \E ok \in BOOLEAN :
         cl' = [(IF ok THEN [cl EXCEPT !.session = "ready", !.inited = TRUE,
                                       !.printed = "Connected to server"]
                 ELSE [Fail(cl, "McpError", "initialize") EXCEPT !.session = "closed"])
                EXCEPT !.pc = ConnectStep("initialize", ok),
                       !.requests = Append(@, "initialize")]
    /\ UNCHANGED <<snapVars, srv>>

\* await self.refresh_tools(); await self.print_tools(); then chat_loop
ClRefreshTools ==
    /\ cl.pc = "refresh"
    /\ \E ok \in BOOLEAN :
         cl' = [(IF ok THEN [cl EXCEPT !.tools = ToolNames,
                                       !.started = ConnectStep("refresh", ok) = "loop",
                                       !.printed = "MCP Client Started!"]
                 ELSE Fail(cl, "McpError", "list_tools"))
                EXCEPT !.pc = ConnectStep("refresh", ok),
                       !.requests = Append(@, "list_tools")]
    /\ UNCHANGED <<snapVars, srv>>

InTools(q, tools) == \E i \in 1..Len(tools) : tools[i] = q

AfterQuery_CaseSensitive(c, line) ==
    LET q == Strip(line) IN
    IF q = "quit"
    THEN [c EXCEPT !.pc = "cleanup"]
    ELSE IF ~InTools(q, c.tools)
    THEN [c EXCEPT !.pc = "loop", !.printed = "Invalid tool name"]
    ELSE [c EXCEPT !.pc = IF Required(q) = <<>> THEN "call" ELSE "param",
                   !.sel = q, !.idx = IF Required(q) = <<>> THEN 0 ELSE 1,
                   !.params = <<>>,
                   !.printed = IF Required(q) = <<>> THEN @
                               ELSE "Please enter the required parameters"]

\* The top of the loop: query = input("Query: ").strip() and what follows
\* up to the first parameter prompt or the call.
AfterQuery(c, line) ==
    LET q == Strip(line) IN
    IF Lower(q) = "quit"
    THEN [c EXCEPT !.pc = "cleanup"]
    ELSE IF ~InTools(q, c.tools)
    THEN [c EXCEPT !.pc = "loop", !.printed = "Invalid tool name"]
    ELSE [c EXCEPT !.pc = IF Required(q) = <<>> THEN "call" ELSE "param",
                   !.sel = q, !.idx = IF Required(q) = <<>> THEN 0 ELSE 1,
                   !.params = <<>>,
                   !.printed = IF Required(q) = <<>> THEN @
                               ELSE "Please enter the required parameters"]

ClReadQuery ==
    /\ cl.pc = "loop"
    /\ cl.iter < MaxIter
    /\ \E line \in Queries :
         cl' = AfterQuery([cl EXCEPT !.iter = @ + 1, !.query = line], line)
    /\ UNCHANGED <<snapVars, srv>>

\* input() raises: EOFError is an Exception, caught by the loop's handler;
\* KeyboardInterrupt is not, and leaves chat_loop.
ClInputRaises ==
    /\ cl.pc \in {"loop", "param"}
    /\ cl.pc = "loop" => cl.iter < MaxIter
    /\ \E kind \in {"EOFError", "KeyboardInterrupt"} :
         cl' = IF kind = "EOFError"
               THEN [cl EXCEPT !.pc = "loop", !.printed = "Error", !.idx = 0,
                               !.query = IF cl.pc = "loop" THEN NoLine ELSE @,
                               !.iter = IF cl.pc = "loop" THEN @ + 1 ELSE @]
               ELSE [Fail(cl, kind, "input") EXCEPT !.pc = "cleanup"]
    /\ UNCHANGED <<snapVars, srv>>

\* A parameter that cannot be converted is passed over.
AfterParam_SkipBad(c, line) ==
    LET p == Required(c.sel)[c.idx]
        v == Coerce(p.type, line) IN
    [c EXCEPT !.params = IF v.ok
                         THEN Append(@, [name |-> p.name, value |-> v.value,
                                         attempt |-> c.iter])
                         ELSE @,
              !.idx = IF c.idx = Len(Required(c.sel)) THEN 0 ELSE @ + 1,
              !.pc = IF c.idx = Len(Required(c.sel)) THEN "call" ELSE "param"]

\* value = input("Enter value: ").strip() and its conversion.  attempt is
\* the iteration of the loop in which the value was entered.
AfterParam(c, line) ==
    LET p == Required(c.sel)[c.idx]
        v == Coerce(p.type, line) IN
    IF ~v.ok
    THEN [c EXCEPT !.pc = "loop", !.idx = 0, !.printed = "Error: Invalid input"]
    ELSE [c EXCEPT !.params = Append(@, [name |-> p.name, value |-> v.value,
                                         attempt |-> c.iter]),
                   !.idx = IF c.idx = Len(Required(c.sel)) THEN 0 ELSE @ + 1,
                   !.pc = IF c.idx = Len(Required(c.sel)) THEN "call" ELSE "param"]

ClReadParam ==
    /\ cl.pc = "param"
    /\ \E line \in Lines :
         cl' = AfterParam([cl EXCEPT !.raw = line, !.nread = @ + 1], line)
    /\ UNCHANGED <<snapVars, srv>>

\* The request is sent and the loop goes on without awaiting the answer.
call_tool_NotAwaited(c) ==
    [c EXCEPT !.pc = "loop", !.requests = Append(@, "call_tool"),
              !.sent = Append(@, [tool |-> c.sel, params |-> c.params,
                                  attempt |-> c.iter]),
              !.outstanding = @ + 1,
              !.printed = "Calling tool"]

\* response = await self.session.call_tool(selected_tool.name, params): the
\* request is sent and the loop is suspended until the answer.
call_tool(c) ==
    [c EXCEPT !.pc = "calling", !.requests = Append(@, "call_tool"),
              !.sent = Append(@, [tool |-> c.sel, params |-> c.params,
                                  attempt |-> c.iter]),
              !.outstanding = @ + 1,
              !.printed = "Calling tool"]

ClCallTool ==
    /\ cl.pc = "call"
    /\ cl' = call_tool(cl)
    /\ UNCHANGED <<snapVars, srv>>

\* The call returns a result (a tool's error is a result too: isError) or
\* raises; on a closed session it can only raise.  The loop's handler
\* (except Exception) catches what it raises.
CallOutcomes == {"result", "error_result", "raise"}

ClCallEnds ==
    /\ cl.pc = "calling"
    /\ \E how \in CallOutcomes :
         /\ how # "raise" => cl.session = "ready"
         /\ cl' = [cl EXCEPT !.pc = "loop",
                             !.response = how,
                             !.outstanding = @ - 1,
                             !.printed = IF how = "raise" THEN "Error"
                                         ELSE "Tool Response"]
    /\ UNCHANGED <<snapVars, srv>>

\* Ctrl-C while the call is awaited: the task is cancelled; the exception
\* is no Exception, so the loop's handlers let it pass.
ClCallInterrupted ==
    /\ cl.pc = "calling"
    /\ cl' = [Fail(cl, "KeyboardInterrupt", "call_tool")
              EXCEPT !.pc = "cleanup", !.outstanding = @ - 1]
    /\ UNCHANGED <<snapVars, srv>>

\* The server goes away: the session is closed under the client.
ClSessionLost ==
    /\ cl.session = "ready"
    /\ cl.pc \in {"loop", "param", "call", "calling"}
    /\ cl' = [cl EXCEPT !.session = "closed"]
    /\ UNCHANGED <<snapVars, srv>>

\* finally: await client.cleanup(): exit_stack.aclose() leaves the contexts
\* entered, the last one first.
Reverse(q) == [i \in 1..Len(q) |-> q[Len(q) + 1 - i]]

\* Only the context entered last is left.
cleanup_LastOnly(c) ==
    [c EXCEPT !.released = IF c.stack = <<>> THEN <<>> ELSE <<c.stack[Len(c.stack)]>>,
              !.stack = IF c.stack = <<>> THEN <<>> ELSE SubSeq(c.stack, 1, Len(c.stack) - 1),
              !.session = IF c.session = "none" THEN "none" ELSE "closed",
              !.pc = "done"]

cleanup(c) ==
    [c EXCEPT !.released = Reverse(c.stack), !.stack = <<>>,
              !.session = IF c.session = "none" THEN "none" ELSE "closed",
              !.pc = "done"]

ClCleanup ==
    /\ cl.pc = "cleanup"
    /\ cl' = cleanup(cl)
    /\ UNCHANGED <<snapVars, srv>>

ClientNext ==
    \/ ClOpenTransport
    \/ ClOpenSession
    \/ ClInitialize
    \/ ClRefreshTools
    \/ ClReadQuery
    \/ ClInputRaises
    \/ ClReadParam
    \/ ClCallTool
    \/ ClCallEnds
    \/ ClCallInterrupted
    \/ ClSessionLost
    \/ ClCleanup

vars == <<dirs, files, last, ncalls, srv, cl>>

Init ==
    /\ SnapInit
    /\ srv = SrvIdle
    /\ cl = ClStart

\* The snapshot functions and tools.
Next == SnapNext

Spec == Init /\ [][Next]_vars

\* The entry points of the server.
ServerSpec == Init /\ [][ServerNext]_vars

\* The client.
ClientSpec == Init /\ [][ClientNext]_vars

(***************************************************************************)
(* Properties of the snapshot functions                                    *)
(***************************************************************************)
SnapshotFunctions == {"_create_snapshot", "create_snapshot", "save_snapshot"}

BadIdOrSize(c) == c.source_id < 0 \/ c.size[1] <= 0 \/ c.size[2] <= 0

RECURSIVE HasNul(_)
HasNul(p) == p # <<>> /\ (p[Len(p)] = "nul" \/ HasNul(Parent(p)))

\* A path the process can write: no component the file system refuses, and
\* not below the read-only directory.
Writable(path) == ~HasNul(path) /\ path[1] # "readonly"

Ancestors(path) == {SubSeq(path, 1, i) : i \in 0..(Len(path) - 1)}

\* C1: a negative source id or a non-positive width or height makes
\* _create_snapshot, create_snapshot and save_snapshot raise ValueError
\* (not a RuntimeError), and the backend is not called.
C1_InvalidArgument ==
    (last.op \in SnapshotFunctions /\ BadIdOrSize(last))
        => (last.exc.kind = "ValueError" /\ last.calls = 0)

C1_Witness ==
    /\ last.op = "create_snapshot"
    /\ last.source_id >= 0 /\ last.size[1] > 0 /\ last.size[2] = 0
    /\ last.exc.kind = "ValueError"

\* C2: with a valid source id and size, a format other than "jpeg" and
\* "png" makes save_snapshot and _create_snapshot raise a ValueError whose
\* message contains "Unsupported format", and the backend is not called.
C2_UnsupportedFormat ==
    (/\ last.op \in {"_create_snapshot", "save_snapshot"}
     /\ ~BadIdOrSize(last)
     /\ last.format \notin {"jpeg", "png"})
        => (/\ last.exc.kind = "ValueError"
            /\ Contains(last.exc.msg, "Unsupported format")
            /\ last.calls = 0)

C2_Witness ==
    /\ last.op = "save_snapshot"
    /\ ~BadIdOrSize(last)
    /\ last.format = "bmp"
    /\ last.exc.kind = "ValueError"

\* C3: a save_snapshot call that ends with a ValueError has had no side
\* effect: the backend was not called, no directory was made and no file
\* was written.
C3_ValueErrorNoSideEffect ==
    (last.op = "save_snapshot" /\ last.exc.kind = "ValueError")
        => (last.calls = 0 /\ dirs = last.pre_dirs /\ files = last.pre_files)

\* C4: save_snapshot with valid arguments, a frame from the backend and a
\* writable path returns normally, makes every missing parent directory
\* and leaves a non-empty file of the requested format at file_path.
C4_SaveCreatesFile ==
    (/\ last.op = "save_snapshot"
     /\ ~BadIdOrSize(last)
     /\ last.format \in {"jpeg", "png"}
     /\ last.backend.t = "frame"
     /\ Writable(last.file_path))
        => (/\ last.exc.kind = "none"
            /\ Ancestors(last.file_path) \subseteq dirs
            /\ last.file_path \in DOMAIN files
            /\ files[last.file_path].size > 0
            /\ files[last.file_path].format = last.format)

C4_Witness ==
    /\ last.op = "save_snapshot"
    /\ last.exc.kind = "none"
    /\ last.backend.mode = "RGBA"
    /\ last.format = "jpeg"
    /\ Len(last.file_path) = 3
    /\ Ancestors(last.file_path) \cap last.pre_dirs = {<<>>}
    /\ last.file_path \in DOMAIN files

\* C5: a call of the save_snapshot tool that supplies quality or format
\* writes the file with the supplied values.
C5_ToolUsesGivenOptions ==
    (/\ last.op = "save_snapshot_tool"
     /\ last.exc.kind = "none")
        => (/\ last.given_format # Absent
               => files[last.file_path].format = last.given_format[1]
            /\ (last.given_quality # Absent /\ files[last.file_path].format = "jpeg")
               => files[last.file_path].quality = last.given_quality[1])

\* The exception class with which op reports a failure of the backend
\* itself (traa.Error).
CaptureFailedKind(op) ==
    IF op = "_create_snapshot"
    THEN _create_snapshot(0, <<1, 1>>, "jpeg", [t |-> "error", mode |-> "-"]).exc.kind
    ELSE IF op = "create_snapshot"
    THEN create_snapshot(0, <<1, 1>>, [t |-> "error", mode |-> "-"]).exc.kind
    ELSE save_snapshot({<<>>}, <<>>, 0, <<1, 1>>, <<FileName>>, DefaultQuality, "jpeg",
                       [t |-> "error", mode |-> "-"]).exc.kind

\* C6 (as claimed): an invalid capture result fails with an error kind
\* other than the kind a backend error fails with.
C6_DistinctKinds ==
    (last.op \in SnapshotFunctions /\ last.backend.t \in {"none", "badtypes"})
        => (last.exc.kind # "none" /\ last.exc.kind # CaptureFailedKind(last.op))

\* C6 (amended): an invalid capture result (None, wrong types) fails with a
\* RuntimeError whose message contains "Invalid result format", a backend
\* error with a RuntimeError whose message contains "Failed to create
\* snapshot": the same exception class, told apart by the message only.
C6_SameKindOtherMessage ==
    /\ (last.op \in SnapshotFunctions /\ last.backend.t \in {"none", "badtypes"})
          => (/\ last.exc.kind = "RuntimeError"
              /\ Contains(last.exc.msg, "Invalid result format"))
    /\ (last.op \in SnapshotFunctions /\ last.backend.t = "error")
          => (/\ last.exc.kind = "RuntimeError"
              /\ Contains(last.exc.msg, "Failed to create snapshot"))

C6_Witness ==
    /\ last.op = "save_snapshot"
    /\ last.backend.t = "none"
    /\ last.exc.kind = "RuntimeError"

\* C7: when making the directories or writing the file fails after a
\* successful capture, save_snapshot raises OSError, a kind other than the
\* one a capture failure is reported with.
C7_IOFailureIsOSError ==
    (/\ last.op = "save_snapshot"
     /\ last.backend.t = "frame"
     /\ ~HasNul(last.file_path)
     /\ last.exc.kind # "none")
        => (/\ last.exc.kind = "OSError"
            /\ last.exc.kind # CaptureFailedKind("save_snapshot"))

\* C8: enum_screen_sources returns one record per backend source, in the
\* backend's order and with the backend's id, title, is_window and rect
\* (left, top, right, bottom); when the backend raises, it raises a
\* RuntimeError whose message contains "Failed to enumerate screen
\* sources" and returns nothing.
C8_EnumScreenSources ==
    last.op = "enum_screen_sources" =>
        /\ last.backend.t = "list" =>
              /\ last.exc.kind = "none"
              /\ Len(last.value) = Len(last.sources)
              /\ \A i \in 1..Len(last.sources) :
                    /\ last.value[i].id = last.sources[i].id
                    /\ last.value[i].title = last.sources[i].title
                    /\ last.value[i].is_window = last.sources[i].is_window
                    /\ last.value[i].rect = <<last.sources[i].rect.left,
                                              last.sources[i].rect.top,
                                              last.sources[i].rect.right,
                                              last.sources[i].rect.bottom>>
        /\ last.backend.t = "error" =>
              /\ last.exc.kind = "RuntimeError"
              /\ Contains(last.exc.msg, "Failed to enumerate screen sources")
              /\ last.value = <<>>

C8_Witness ==
    /\ last.op = "enum_screen_sources"
    /\ Len(last.sources) = 2
    /\ last.sources[1].id # last.sources[2].id
    /\ Len(last.value) = 2

(***************************************************************************)
(* Properties of the server's entry points                                 *)
(***************************************************************************)
\* C10: every entry point ends the process with 0 when the run finishes or
\* is interrupted, and with 1 when it raises another exception.
C10_ExitCodes ==
    srv.pc = "exited" =>
        IF srv.event \in {"finished", "KeyboardInterrupt"}
        THEN srv.exit_code = 0
        ELSE srv.exit_code = 1

(***************************************************************************)
(* Properties of the client                                                *)
(***************************************************************************)
\* C9: no list_tools or call_tool request is issued before initialize()
\* has completed successfully; when opening the transport, opening the
\* session or initialize() fails, the loop is never entered and no
\* call_tool is sent.
C9_InitializeFirst ==
    /\ \A i \in 1..Len(cl.requests) :
          cl.requests[i] \in {"list_tools", "call_tool"}
             => (cl.inited /\ \E j \in 1..(i - 1) : cl.requests[j] = "initialize")
    /\ cl.exc.at \in {"stdio_client", "ClientSession", "initialize"}
          => (/\ ~cl.started
              /\ cl.iter = 0
              /\ \A i \in 1..Len(cl.requests) : cl.requests[i] # "call_tool")

C9_Witness ==
    /\ cl.inited
    /\ Len(cl.requests) >= 3
    /\ cl.requests[3] = "call_tool"
    /\ cl.sel = "create_snapshot"

\* A step of the loop that reads a line at the "Query: " prompt.
QueryRead == cl.pc = "loop" /\ cl'.iter = cl.iter + 1 /\ cl'.query # NoLine

\* The line is s, character for character.
LineIs(line, s) == ~line.pad /\ line.text = s
LineIsQuit(line) == ~line.pad /\ Lower(line.text) = "quit"
LineIsTool(line, tools) == \E i \in 1..Len(tools) : LineIs(line, tools[i])

\* After the loop has ended no request is sent.
NoRequestAfterLoop == cl.pc \in {"cleanup", "done"} => cl'.requests = cl.requests

\* C11 (as claimed): a line equal to "quit" in any letter case ends the loop
\* without a call_tool; any other line that is not equal to the name of a
\* tool prints an error and returns to the prompt, without a call_tool and
\* without a parameter prompt.
C11_QuitOrInvalid ==
    [][/\ QueryRead =>
             /\ LineIsQuit(cl'.query)
                   => (cl'.pc = "cleanup" /\ cl'.requests = cl.requests)
             /\ (~LineIsQuit(cl'.query) /\ ~LineIsTool(cl'.query, cl.tools))
                   => (/\ cl'.pc = "loop"
                       /\ cl'.printed = "Invalid tool name"
                       /\ cl'.requests = cl.requests
                       /\ cl'.idx = 0)
       /\ NoRequestAfterLoop]_vars

\* C11 (amended): the line is compared after strip(): a line whose stripped
\* text is "quit" in any letter case ends the loop without a call_tool; any
\* other line whose stripped text is not the name of a tool prints an
\* error and returns to the prompt, without a call_tool and without a
\* parameter prompt.
C11_QuitOrInvalidStripped ==
    [][/\ QueryRead =>
             LET q == Strip(cl'.query) IN
             /\ Lower(q) = "quit"
                   => (/\ cl'.pc = "cleanup"
                       /\ cl'.requests = cl.requests
                       /\ cl'.exc = NoClExc)
             /\ (Lower(q) # "quit" /\ ~InTools(q, cl.tools))
                   => (/\ cl'.pc = "loop"
                       /\ cl'.printed = "Invalid tool name"
                       /\ cl'.requests = cl.requests
                       /\ cl'.idx = 0)
       /\ NoRequestAfterLoop]_vars

C11_Witness ==
    /\ cl.query = [text |-> "QUIT", pad |-> TRUE]
    /\ cl.pc = "cleanup"
    /\ cl.exc = NoClExc
    /\ cl.iter = 2

\* A step of the loop that reads the value of a parameter.
ParamRead == cl.pc = "param" /\ cl'.nread = cl.nread + 1

\* Every call_tool sent carries one value for each required parameter of
\* its tool, in order, all entered in the attempt that sent it.
SentFromOneAttempt ==
    \A i \in 1..Len(cl.sent) :
        LET call == cl.sent[i] IN
        /\ Len(call.params) = Len(Required(call.tool))
        /\ \A k \in 1..Len(call.params) :
              /\ call.params[k].name = Required(call.tool)[k].name
              /\ call.params[k].attempt = call.attempt

\* C12: when the raw value of a required parameter cannot be converted to
\* its declared type, the attempt ends: no call_tool is sent for it, no
\* further parameter is prompted, what was collected is not sent by any
\* later call, and the loop is at its top again, still running.
C12_CoercionFailureAborts ==
    [][/\ (ParamRead /\ ~Coerce(Required(cl.sel)[cl.idx].type, cl'.raw).ok)
             => (/\ cl'.pc = "loop"
                 /\ cl'.idx = 0
                 /\ cl'.requests = cl.requests
                 /\ cl'.sent = cl.sent
                 /\ cl'.exc = NoClExc)
       /\ SentFromOneAttempt']_vars

C12_Witness ==
    /\ cl.pc = "loop"
    /\ cl.printed = "Error: Invalid input"
    /\ cl.sel = "save_snapshot"
    /\ cl.raw = <<"7", "x">>
    /\ Len(cl.params) = 1

\* C13: when the session is closed under the running loop, the loop exits
\* (the call that meets the closed session does not lead back to the
\* prompt); an error the call returns or raises on a live session is
\* printed and the loop continues.
C13_ClosedSessionEndsLoop ==
    [][/\ (cl.pc = "calling" /\ cl.session = "closed" /\ cl'.pc # "calling")
             => cl'.pc = "cleanup"
       /\ (cl.pc = "calling" /\ cl.session = "ready"
              /\ cl'.response \in {"error_result", "raise"} /\ cl'.pc = "loop")
             => cl'.printed \in {"Tool Response", "Error"}]_vars

\* C14: when _main_impl ends, every context entered on the exit stack
\* (stdio_client, ClientSession) has been left, the last one first, on
\* every way out: quit, an exception from opening the transport or the
\* session, from initialize(), from the first tool listing, or one that
\* escapes the loop.
C14_AllReleased ==
    /\ cl.pc = "done"
          => (/\ cl.stack = <<>>
              /\ cl.released = Reverse(cl.entered))
    /\ cl.pc # "done" => (cl.stack = cl.entered /\ cl.released = <<>>)
    /\ cl.exc.kind # "none" => cl.pc \in {"cleanup", "done"}

C14_Witness ==
    /\ cl.pc = "done"
    /\ cl.exc.at = "list_tools"
    /\ cl.released = <<"ClientSession", "stdio_client">>

\* C15: at most one call_tool is outstanding; while it is, the loop reads
\* no input and sends no request: it can only stay suspended, take the
\* answer or be interrupted.
C15_OneCallAtATime ==
    [][/\ (cl.pc = "calling" /\ cl'.pc # "calling")
             => (/\ cl'.pc \in {"loop", "cleanup"}
                 /\ cl'.outstanding = 0)
       /\ cl.pc = "calling"
             => (/\ cl'.requests = cl.requests
                 /\ cl'.sent = cl.sent
                 /\ cl'.iter = cl.iter
                 /\ cl'.nread = cl.nread)
       /\ cl.outstanding > 0 => cl.pc = "calling"
       /\ cl'.outstanding <= 1]_vars

C15_Witness ==
    /\ cl.pc = "calling"
    /\ cl.outstanding = 1
    /\ Len(cl.sent) = 2
    /\ cl.session = "closed"

====
